---- MODULE Spec2Model ----
(***************************************************************************)
(* htmlgopdf: an options record (PDFOptions), a fluent builder over it     *)
(* (OptionsBuilder), and a Generator that drives one browser session per   *)
(* conversion call: navigate, wait, print-to-PDF, return the bytes.        *)
(*                                                                         *)
(* Lengths (paper size, margins) are in hundredths of an inch and the      *)
(* scale factor in hundredths, so 8.27in is 827 and scale 1.0 is 100.      *)
(* Durations are in milliseconds.                                          *)
(* A Go pointer or error is a sequence: <<>> is nil, <<v>> points to v.    *)
(* A byte slice is a record [nil, bytes], so that the nil slice and an     *)
(* empty slice stay distinct.                                              *)
(***************************************************************************)
EXTENDS Integers, Sequences, FiniteSets, TLC

VARIABLES
    pc,          \* position of the caller / of the conversion call
    options,     \* the PDFOptions record b.options / g.options point to
    how,         \* how the generator was obtained
    ncalls,      \* number of builder setters called so far
    lastSizing,  \* the last Format or Size call made on the builder, and the
                 \* kind of the one before it
    entry,       \* "FromHTML" or "FromURL"
    input,       \* the htmlContent / url argument
    tasks,       \* the actions handed to chromedp.Run, in order
    ip,          \* number of actions of tasks that completed successfully
    issued,      \* commands issued to the browser so far
    requests,    \* the PrintToPDFParams sent to the browser
    produced,    \* the bytes the browser's print-to-PDF command produced
    clientErr,   \* the error the browser client raised (nil if none)
    failedStep,  \* the step at which the client raised it
    runErr,      \* the error chromedp.Run returned to FromHTML / FromURL
    pdfData,     \* the local pdfData of FromHTML / FromURL
    retData,     \* returned byte slice
    retErr,      \* returned error
    ctxs,        \* state of the timeout context and the browser context
    defers       \* the deferred cancel functions, in defer order

vars == <<pc, options, how, ncalls, lastSizing, entry, input, tasks, ip, issued,
          requests, produced, clientErr, failedStep, runErr, pdfData, retData,
          retErr, ctxs, defers>>

(***************************************************************************)
(* Bounds and input sets                                                   *)
(***************************************************************************)
MaxCalls == 2

FormatInputs == {"A4", "A3", "Letter", "Legal", "Tabloid", "A5"}
LengthInputs == {0, 500, 850}
MarginInputs == {40, 75}
ScaleInputs == {10, 80, 200, 300}
TemplateInputs == {"", "<span class=title></span>"}
SelectorInputs == {"", "#content-loaded"}
WaitTimeInputs == {0, 3000}
TimeoutInputs == {0, 60000}
HTMLInputs == {<<"<", "p", ">", "a", " ", "b">>}
URLInputs == {<<"h", "t", "t", "p", ":", "/", "/", "x">>}
ClientErrors == {<<[msg |-> <<"context deadline exceeded">>, cause |-> <<>>]>>,
                 <<[msg |-> <<"page load error net::ERR_ABORTED">>, cause |-> <<>>]>>}
PDFBytes == {[nil |-> FALSE, bytes |-> <<37, 80, 68, 70>>],
             [nil |-> FALSE, bytes |-> <<37, 80, 68, 70, 10>>]}

NoErr == <<>>
NilBytes == [nil |-> TRUE, bytes |-> <<>>]

(***************************************************************************)
(* PDFOptions (builder.go)                                                 *)
(***************************************************************************)
ZeroOptions ==
    [Format |-> "", Width |-> 0, Height |-> 0,
     MarginTop |-> 0, MarginBottom |-> 0, MarginLeft |-> 0, MarginRight |-> 0,
     Landscape |-> FALSE, PrintBackground |-> FALSE, Scale |-> 0,
     DisplayHeaderFooter |-> FALSE, HeaderTemplate |-> "", FooterTemplate |-> "",
     WaitForSelector |-> "", WaitTime |-> 0, Timeout |-> 0]

DefaultOptionsNoScale ==
    [ZeroOptions EXCEPT !.Format = "A4",
        !.MarginTop = 40, !.MarginBottom = 40, !.MarginLeft = 40, !.MarginRight = 40,
        !.Landscape = FALSE, !.PrintBackground = TRUE,
        !.WaitTime = 2000, !.Timeout = 30000]

DefaultOptions ==
    [ZeroOptions EXCEPT !.Format = "A4",
        !.MarginTop = 40, !.MarginBottom = 40, !.MarginLeft = 40, !.MarginRight = 40,
        !.Landscape = FALSE, !.PrintBackground = TRUE, !.Scale = 100,
        !.WaitTime = 2000, !.Timeout = 30000]

\* The literal of the README's "Custom Generator with Options" and other
\* records a caller may hand to NewGenerator.
ReadmeOptions ==
    [ZeroOptions EXCEPT !.Format = "Letter",
        !.MarginTop = 75, !.MarginBottom = 75, !.MarginLeft = 50, !.MarginRight = 50,
        !.Landscape = FALSE, !.PrintBackground = TRUE, !.Scale = 120,
        !.WaitTime = 5000, !.Timeout = 120000]

CallerOptions ==
    {ReadmeOptions,
     [ZeroOptions EXCEPT !.Timeout = 30000],
     [ZeroOptions EXCEPT !.Width = 850, !.Height = 1100, !.Scale = 100, !.Timeout = 30000],
     [ZeroOptions EXCEPT !.Width = 850, !.Scale = 100, !.Timeout = 30000],
     [ReadmeOptions EXCEPT !.Format = "Legal", !.Width = 500, !.Height = 500,
                           !.Landscape = TRUE, !.Scale = 250],
     [ReadmeOptions EXCEPT !.Format = "a4", !.Width = 500, !.Height = 850,
                           !.DisplayHeaderFooter = TRUE,
                           !.HeaderTemplate = "<span class=title></span>",
                           !.WaitForSelector = "#content-loaded", !.WaitTime = 0]}

(***************************************************************************)
(* OptionsBuilder setters (builder.go)                                     *)
(***************************************************************************)
Format(o, format) == [o EXCEPT !.Format = format]

SizeKeepsFormat(o, width, height) == [o EXCEPT !.Width = width, !.Height = height]

Size(o, width, height) ==
    [o EXCEPT !.Width = width, !.Height = height, !.Format = ""]

Margins(o, top, bottom, left, right) ==
    [o EXCEPT !.MarginTop = top, !.MarginBottom = bottom,
              !.MarginLeft = left, !.MarginRight = right]

Landscape(o) == [o EXCEPT !.Landscape = TRUE]

Portrait(o) == [o EXCEPT !.Landscape = FALSE]

Scale(o, scale) == [o EXCEPT !.Scale = scale]

PrintBackground(o, enable) == [o EXCEPT !.PrintBackground = enable]

HeaderFooter(o, header, footer) ==
    [o EXCEPT !.DisplayHeaderFooter = TRUE,
              !.HeaderTemplate = header, !.FooterTemplate = footer]

WaitFor(o, selector) == [o EXCEPT !.WaitForSelector = selector]

WaitTime(o, duration) == [o EXCEPT !.WaitTime = duration]

Timeout(o, duration) == [o EXCEPT !.Timeout = duration]

(***************************************************************************)
(* Generator (generator.go)                                                *)
(***************************************************************************)
\* NewGenerator: a nil pointer is replaced by the defaults.
NewGenerator(p) == IF p = <<>> THEN DefaultOptions ELSE p[1]

\* url.PathEscape on the characters of the input alphabet: unreserved
\* characters and ":" pass, everything else is percent-encoded.
EscapeChar(c) ==
    CASE c = " " -> <<"%", "2", "0">>
      [] c = "<" -> <<"%", "3", "C">>
      [] c = ">" -> <<"%", "3", "E">>
      [] c = "/" -> <<"%", "2", "F">>
      [] c = "%" -> <<"%", "2", "5">>
      [] OTHER   -> <<c>>

RECURSIVE PathEscape(_)
PathEscape(s) ==
    IF s = <<>> THEN <<>> ELSE EscapeChar(Head(s)) \o PathEscape(Tail(s))

DataURLPrefix == <<"data:text/html;charset=utf-8,">>

DataURL(htmlContent) == DataURLPrefix \o PathEscape(htmlContent)

Cmd(c, u, s, d) == [cmd |-> c, url |-> u, sel |-> s, d |-> d]

DefaultSleep == 500

\* waitForConditions: the wait actions derived from the options.
waitForConditions(o) ==
    LET sel == IF o.WaitForSelector # ""
               THEN <<Cmd("WaitVisible", <<>>, o.WaitForSelector, 0)>> ELSE <<>>
        slp == IF o.WaitTime > 0
               THEN <<Cmd("Sleep", <<>>, "", o.WaitTime)>> ELSE <<>>
        actions == sel \o slp
    IN  IF Len(actions) = 0
        THEN <<Cmd("Sleep", <<>>, "", DefaultSleep)>>
        ELSE actions

\* The argument list of chromedp.Run in FromHTML / FromURL.
RunTasksPrintFirst(o, target) ==
    <<Cmd("Navigate", target, "", 0), Cmd("WaitReady", <<>>, "body", 0)>>
    \o <<Cmd("PrintToPDF", <<>>, "", 0)>>
    \o waitForConditions(o)

RunTasks(o, target) ==
    <<Cmd("Navigate", target, "", 0), Cmd("WaitReady", <<>>, "body", 0)>>
    \o waitForConditions(o)
    \o <<Cmd("PrintToPDF", <<>>, "", 0)>>

\* Paper size chosen by generatePDF: <<PaperWidth, PaperHeight>>, <<0, 0>>
\* when the request leaves both unset.
PaperSizeCustomFirst(o) ==
    IF o.Width > 0 /\ o.Height > 0 THEN <<o.Width, o.Height>>
    ELSE CASE o.Format = "A4"      -> <<827, 1170>>
           [] o.Format = "A3"      -> <<1170, 1650>>
           [] o.Format = "Letter"  -> <<850, 1100>>
           [] o.Format = "Legal"   -> <<850, 1400>>
           [] o.Format = "Tabloid" -> <<1100, 1700>>
           [] OTHER                -> <<0, 0>>

PaperSize(o) ==
    IF o.Format # ""
    THEN CASE o.Format = "A4"      -> <<827, 1170>>
           [] o.Format = "A3"      -> <<1170, 1650>>
           [] o.Format = "Letter"  -> <<850, 1100>>
           [] o.Format = "Legal"   -> <<850, 1400>>
           [] o.Format = "Tabloid" -> <<1100, 1700>>
           [] OTHER                -> <<0, 0>>
    ELSE IF o.Width > 0 /\ o.Height > 0
         THEN <<o.Width, o.Height>>
         ELSE <<0, 0>>

\* The page.PrintToPDFParams generatePDF builds from the options.
PrintToPDFParamsOneMargin(o) ==
    [PrintBackground |-> o.PrintBackground,
     Landscape |-> o.Landscape,
     DisplayHeaderFooter |-> o.DisplayHeaderFooter,
     Scale |-> o.Scale,
     PaperWidth |-> PaperSize(o)[1],
     PaperHeight |-> PaperSize(o)[2],
     MarginTop |-> o.MarginTop,
     MarginBottom |-> o.MarginTop,
     MarginLeft |-> o.MarginTop,
     MarginRight |-> o.MarginTop,
     HeaderTemplate |-> IF o.HeaderTemplate # "" THEN o.HeaderTemplate ELSE "",
     FooterTemplate |-> IF o.FooterTemplate # "" THEN o.FooterTemplate ELSE ""]

PrintToPDFParams(o) ==
    [PrintBackground |-> o.PrintBackground,
     Landscape |-> o.Landscape,
     DisplayHeaderFooter |-> o.DisplayHeaderFooter,
     Scale |-> o.Scale,
     PaperWidth |-> PaperSize(o)[1],
     PaperHeight |-> PaperSize(o)[2],
     MarginTop |-> o.MarginTop,
     MarginBottom |-> o.MarginBottom,
     MarginLeft |-> o.MarginLeft,
     MarginRight |-> o.MarginRight,
     HeaderTemplate |-> IF o.HeaderTemplate # "" THEN o.HeaderTemplate ELSE "",
     FooterTemplate |-> IF o.FooterTemplate # "" THEN o.FooterTemplate ELSE ""]

\* fmt.Errorf(prefix + ": %w", err): the message is prefixed, err is the cause.
ErrorfDropsCause(prefix, err) ==
    <<[msg |-> <<prefix>>, cause |-> <<>>]>>

Errorf(prefix, err) ==
    <<[msg |-> <<prefix>> \o err[1].msg, cause |-> err]>>

ErrPrefix(e) ==
    IF e = "FromHTML" THEN "failed to generate PDF" ELSE "failed to generate PDF from URL"

\* The two deferred cancel functions of a call, in defer order: each defer
\* statement evaluates the value of cancel at that point.
DefersLateBound == <<"browser", "browser">>

Defers == <<"timeout", "browser">>

\* Run the deferred calls last-in first-out.  Cancelling the timeout context
\* also cancels the browser context derived from it.
RECURSIVE RunDefers(_, _)
RunDefers(c, ds) ==
    IF ds = <<>> THEN c
    ELSE LET d == ds[Len(ds)]
             c2 == IF d = "timeout"
                   THEN [timeout |-> "cancelled", browser |-> "cancelled"]
                   ELSE [c EXCEPT !.browser = "cancelled"]
         IN  RunDefers(c2, SubSeq(ds, 1, Len(ds) - 1))

\* The return statement of FromHTML / FromURL: <<bytes, error>>.
ResultIgnoresError(e, data, err) == <<data, NoErr>>

Result(e, data, err) ==
    IF err # NoErr
    THEN <<NilBytes, Errorf(ErrPrefix(e), err)>>
    ELSE <<data, NoErr>>

(***************************************************************************)
(* State machine                                                           *)
(***************************************************************************)
NoSizing == [kind |-> "none", f |-> "", w |-> 0, h |-> 0, prev |-> "none"]

Init ==
    /\ pc = "start"
    /\ options = ZeroOptions
    /\ how = "none"
    /\ ncalls = 0
    /\ lastSizing = NoSizing
    /\ entry = "none"
    /\ input = <<>>
    /\ tasks = <<>>
    /\ ip = 0
    /\ issued = <<>>
    /\ requests = <<>>
    /\ produced = NilBytes
    /\ clientErr = NoErr
    /\ failedStep = "none"
    /\ runErr = NoErr
    /\ pdfData = NilBytes
    /\ retData = NilBytes
    /\ retErr = NoErr
    /\ ctxs = [timeout |-> "none", browser |-> "none"]
    /\ defers = <<>>

callVars == <<entry, input, tasks, ip, issued, requests, produced, clientErr,
              failedStep, runErr, pdfData, retData, retErr, ctxs, defers>>

\* ---- obtaining a generator ----

WithOptions ==
    /\ pc = "start"
    /\ pc' = "building"
    /\ options' = DefaultOptions
    /\ how' = "builder"
    /\ UNCHANGED <<ncalls, lastSizing>>
    /\ UNCHANGED callVars

\* A builder setter: the options record is replaced by o2.
Setter(o2, sizing) ==
    /\ pc = "building"
    /\ ncalls < MaxCalls
    /\ options' = o2
    /\ ncalls' = ncalls + 1
    /\ lastSizing' = sizing
    /\ UNCHANGED <<pc, how>>
    /\ UNCHANGED callVars

BFormat ==
    \E f \in FormatInputs :
        Setter(Format(options, f), [kind |-> "Format", f |-> f, w |-> 0, h |-> 0, prev |-> lastSizing.kind])

BSize ==
    \E w \in LengthInputs, h \in LengthInputs :
        Setter(Size(options, w, h), [kind |-> "Size", f |-> "", w |-> w, h |-> h, prev |-> lastSizing.kind])

BMargins ==
    \E t \in MarginInputs, b \in MarginInputs, l \in MarginInputs, r \in MarginInputs :
        Setter(Margins(options, t, b, l, r), lastSizing)

BLandscape == Setter(Landscape(options), lastSizing)

BPortrait == Setter(Portrait(options), lastSizing)

BScale == \E s \in ScaleInputs : Setter(Scale(options, s), lastSizing)

BPrintBackground == \E e \in BOOLEAN : Setter(PrintBackground(options, e), lastSizing)

BHeaderFooter ==
    \E h \in TemplateInputs, f \in TemplateInputs :
        Setter(HeaderFooter(options, h, f), lastSizing)

BWaitFor == \E s \in SelectorInputs : Setter(WaitFor(options, s), lastSizing)

BWaitTime == \E d \in WaitTimeInputs : Setter(WaitTime(options, d), lastSizing)

BTimeout == \E d \in TimeoutInputs : Setter(Timeout(options, d), lastSizing)

Build ==
    /\ pc = "building"
    /\ pc' = "ready"
    /\ options' = NewGenerator(<<options>>)
    /\ UNCHANGED <<how, ncalls, lastSizing>>
    /\ UNCHANGED callVars

\* NewGenerator called directly by the caller: with nil, with DefaultOptions(),
\* or with a record of the caller's own.
NewGeneratorCall ==
    /\ pc = "start"
    /\ pc' = "ready"
    /\ \/ options' = NewGenerator(<<>>) /\ how' = "nil"
       \/ options' = NewGenerator(<<DefaultOptions>>) /\ how' = "default"
       \/ \E o \in CallerOptions : options' = NewGenerator(<<o>>) /\ how' = "caller"
    /\ UNCHANGED <<ncalls, lastSizing>>
    /\ UNCHANGED callVars

\* ---- one conversion call ----

\* FromHTML / FromURL of a generator with options o, up to the call of
\* chromedp.Run: both contexts are created, both cancels deferred, and the
\* action list is built.
Enter(e, x, o) ==
    /\ pc' = "run"
    /\ entry' = e
    /\ input' = x
    /\ ctxs' = [timeout |-> "active", browser |-> "active"]
    /\ defers' = Defers
    /\ tasks' = RunTasks(o, IF e = "FromHTML" THEN DataURL(x) ELSE x)
    /\ UNCHANGED <<ip, issued, requests, produced, clientErr, failedStep, runErr,
                   pdfData, retData, retErr>>

GenFromHTML ==
    /\ pc = "ready"
    /\ \E x \in HTMLInputs : Enter("FromHTML", x, options)
    /\ UNCHANGED <<options, how, ncalls, lastSizing>>

GenFromURL ==
    /\ pc = "ready"
    /\ \E x \in URLInputs : Enter("FromURL", x, options)
    /\ UNCHANGED <<options, how, ncalls, lastSizing>>

\* OptionsBuilder.Generate / GenerateFromURL: Build() then the call.
Generate ==
    /\ pc = "building"
    /\ options' = NewGenerator(<<options>>)
    /\ \E x \in HTMLInputs : Enter("FromHTML", x, options')
    /\ UNCHANGED <<how, ncalls, lastSizing>>

GenerateFromURL ==
    /\ pc = "building"
    /\ options' = NewGenerator(<<options>>)
    /\ \E x \in URLInputs : Enter("FromURL", x, options')
    /\ UNCHANGED <<how, ncalls, lastSizing>>

\* The package-level FromHTML / FromURL: NewGenerator(DefaultOptions()) then
\* the call.
PkgFromHTML ==
    /\ pc = "start"
    /\ options' = NewGenerator(<<DefaultOptions>>)
    /\ how' = "pkg"
    /\ \E x \in HTMLInputs : Enter("FromHTML", x, options')
    /\ UNCHANGED <<ncalls, lastSizing>>

PkgFromURL ==
    /\ pc = "start"
    /\ options' = NewGenerator(<<DefaultOptions>>)
    /\ how' = "pkg"
    /\ \E x \in URLInputs : Enter("FromURL", x, options')
    /\ UNCHANGED <<ncalls, lastSizing>>

genVars == <<options, how, ncalls, lastSizing, entry, input, tasks>>

\* chromedp.Run returns with error err raised by the client at step s.
Fail(s, e, err) ==
    /\ clientErr' = e
    /\ failedStep' = s
    /\ runErr' = err
    /\ pc' = "return"

\* chromedp.Run starts the browser on first use; this fails when the browser
\* cannot be started or the timeout context has already expired.
RunStart ==
    /\ pc = "run"
    /\ \/ /\ options.Timeout > 0
          /\ pc' = "exec"
          /\ UNCHANGED <<clientErr, failedStep, runErr>>
       \/ \E e \in ClientErrors : Fail("start", e, e)
    /\ UNCHANGED genVars
    /\ UNCHANGED <<ip, issued, requests, produced, pdfData, retData, retErr, ctxs, defers>>

\* One of the navigate / wait actions of the list: issued, then it either
\* completes or fails, and a failure ends chromedp.Run.
Step(c) ==
    /\ pc = "exec"
    /\ ip < Len(tasks)
    /\ tasks[ip + 1].cmd = c
    /\ issued' = Append(issued, tasks[ip + 1])
    /\ \/ /\ ip' = ip + 1
          /\ pc' = IF ip' = Len(tasks) THEN "return" ELSE "exec"
          /\ UNCHANGED <<clientErr, failedStep, runErr>>
       \/ /\ \E e \in ClientErrors : Fail(c, e, e)
          /\ UNCHANGED ip
    /\ UNCHANGED genVars
    /\ UNCHANGED <<requests, produced, pdfData, retData, retErr, ctxs, defers>>

Navigate == Step("Navigate")

WaitReady == Step("WaitReady")

WaitVisible == Step("WaitVisible")

Sleep == Step("Sleep")

\* The ActionFunc calling generatePDF: the request is built from the options
\* and sent; the bytes, or nil and the wrapped error, come back.
GeneratePDF ==
    /\ pc = "exec"
    /\ ip < Len(tasks)
    /\ tasks[ip + 1].cmd = "PrintToPDF"
    /\ issued' = Append(issued, tasks[ip + 1])
    /\ requests' = Append(requests, PrintToPDFParams(options))
    /\ \/ \E b \in PDFBytes :
            /\ produced' = b
            /\ pdfData' = b
            /\ ip' = ip + 1
            /\ pc' = IF ip' = Len(tasks) THEN "return" ELSE "exec"
            /\ UNCHANGED <<clientErr, failedStep, runErr>>
       \/ \E e \in ClientErrors :
            /\ Fail("PrintToPDF", e, Errorf("failed to generate PDF", e))
            /\ pdfData' = NilBytes
            /\ UNCHANGED <<ip, produced>>
    /\ UNCHANGED genVars
    /\ UNCHANGED <<retData, retErr, ctxs, defers>>

\* The error check and return of FromHTML / FromURL, then the deferred cancels.
Return ==
    /\ pc = "return"
    /\ retData' = Result(entry, pdfData, runErr)[1]
    /\ retErr' = Result(entry, pdfData, runErr)[2]
    /\ ctxs' = RunDefers(ctxs, defers)
    /\ defers' = <<>>
    /\ pc' = "done"
    /\ UNCHANGED genVars
    /\ UNCHANGED <<ip, issued, requests, produced, clientErr, failedStep, runErr, pdfData>>

Next ==
    \/ WithOptions
    \/ BFormat
    \/ BSize
    \/ BMargins
    \/ BLandscape
    \/ BPortrait
    \/ BScale
    \/ BPrintBackground
    \/ BHeaderFooter
    \/ BWaitFor
    \/ BWaitTime
    \/ BTimeout
    \/ Build
    \/ NewGeneratorCall
    \/ GenFromHTML
    \/ GenFromURL
    \/ Generate
    \/ GenerateFromURL
    \/ PkgFromHTML
    \/ PkgFromURL
    \/ RunStart
    \/ Navigate
    \/ WaitReady
    \/ WaitVisible
    \/ Sleep
    \/ GeneratePDF
    \/ Return

Spec == Init /\ [][Next]_vars

(***************************************************************************)
(* Properties                                                              *)
(***************************************************************************)
InCall == pc \in {"run", "exec", "return", "done"}

Phase(c) ==
    CASE c = "Navigate" -> 1
      [] c \in {"WaitReady", "WaitVisible", "Sleep"} -> 2
      [] c = "PrintToPDF" -> 3

Predefined == {"A4", "A3", "Letter", "Legal", "Tabloid"}

\* The README's "Paper Formats" list, in hundredths of an inch.
DocumentedSize(f) ==
    CASE f = "A4"      -> <<827, 1170>>
      [] f = "A3"      -> <<1170, 1650>>
      [] f = "Letter"  -> <<850, 1100>>
      [] f = "Legal"   -> <<850, 1400>>
      [] f = "Tabloid" -> <<1100, 1700>>

RequestSize(r) == <<r.PaperWidth, r.PaperHeight>>

RECURSIVE RootCause(_)
RootCause(e) == IF e[1].cause = <<>> THEN e ELSE RootCause(e[1].cause)

\* C1 (state part): the commands issued so far are in the order navigate,
\* waits, print-to-PDF, each at most once; print-to-PDF is issued only after
\* navigate and every wait action of the call completed successfully; bytes
\* are collected only from a completed print-to-PDF.
C1_OrderInv ==
    /\ \A i \in 1..Len(issued), j \in 1..Len(issued) :
          i < j => /\ Phase(issued[i].cmd) <= Phase(issued[j].cmd)
                   /\ issued[i].cmd # issued[j].cmd
    /\ Len(requests) = Cardinality({i \in 1..Len(issued) : issued[i].cmd = "PrintToPDF"})
    /\ Len(requests) <= 1
    /\ \A i \in 1..Len(issued) :
          issued[i].cmd = "PrintToPDF" =>
             /\ i >= 3
             /\ issued[1].cmd = "Navigate"
             /\ ip >= i - 1
             /\ \A k \in 1..Len(tasks) :
                   Phase(tasks[k].cmd) < 3 =>
                      \E j \in 1..(i - 1) : issued[j] = tasks[k]
    /\ ~pdfData.nil =>
          /\ Len(issued) = ip
          /\ issued[ip].cmd = "PrintToPDF"

\* C1: every conversion call issues navigate, wait, print-to-PDF, collect in
\* that fixed order, each at most once, and once a step has failed no further
\* command is issued.
C1_Sequence ==
    /\ []C1_OrderInv
    /\ [][runErr # NoErr => (issued' = issued /\ requests' = requests)]_vars

C1_Witness ==
    /\ pc = "done"
    /\ retErr = NoErr
    /\ Len(issued) = 5
    /\ issued[3].cmd = "WaitVisible"
    /\ issued[4].cmd = "Sleep"
    /\ issued[5].cmd = "PrintToPDF"

\* C2 as stated: the error a failed call returns is the client's error itself.
C2_Verbatim ==
    (pc = "done" /\ clientErr # NoErr) => retErr = clientErr

\* C2 amended: the error a failed call returns wraps the client's error: its
\* message is the client's message behind the call's prefix (and behind
\* generatePDF's prefix when print-to-PDF failed), its cause chain ends in
\* the client's error, and a call returns an error exactly when a step failed.
C2_Wrapped ==
    pc = "done" =>
        /\ (clientErr = NoErr) <=> (retErr = NoErr)
        /\ clientErr # NoErr =>
              /\ retErr # clientErr
              /\ RootCause(retErr) = clientErr
              /\ retErr[1].msg =
                    <<IF entry = "FromHTML" THEN "failed to generate PDF"
                                            ELSE "failed to generate PDF from URL">>
                    \o (IF failedStep = "PrintToPDF"
                        THEN <<"failed to generate PDF">> ELSE <<>>)
                    \o clientErr[1].msg

C2_Witness ==
    /\ pc = "done"
    /\ entry = "FromURL"
    /\ failedStep = "PrintToPDF"
    /\ clientErr # NoErr
    /\ retErr # NoErr

\* C3: a finished call returns either an error and the nil slice, or no error
\* and exactly the bytes print-to-PDF produced; success is never returned for
\* a call in which a step failed.
C3_Outcome ==
    pc = "done" =>
        \/ /\ retErr # NoErr
           /\ retData = NilBytes
        \/ /\ retErr = NoErr
           /\ clientErr = NoErr
           /\ Len(requests) = 1
           /\ ~produced.nil
           /\ retData = produced

C3_Witness ==
    /\ pc = "done"
    /\ retErr = NoErr
    /\ ~retData.nil
    /\ retData = produced

\* The rendering fields of PDFOptions and the values tried for each.
RenderingFields ==
    {"Format", "Width", "Height", "MarginTop", "MarginBottom", "MarginLeft",
     "MarginRight", "Landscape", "PrintBackground", "Scale", "DisplayHeaderFooter",
     "HeaderTemplate", "FooterTemplate"}

SizeFields == {"Format", "Width", "Height"}

FieldInputs(f) ==
    CASE f = "Format" -> FormatInputs \cup {""}
      [] f \in {"Width", "Height"} -> LengthInputs
      [] f \in {"MarginTop", "MarginBottom", "MarginLeft", "MarginRight"} ->
            MarginInputs \cup {0}
      [] f \in {"Landscape", "PrintBackground", "DisplayHeaderFooter"} -> BOOLEAN
      [] f = "Scale" -> ScaleInputs \cup {0, 100}
      [] f \in {"HeaderTemplate", "FooterTemplate"} -> TemplateInputs

\* Changing field f of the options changes the request.
Carried(f, r) ==
    \A v \in FieldInputs(f) :
        v # options[f] => PrintToPDFParams([options EXCEPT ![f] = v]) # r

\* C4 as stated: every rendering field is carried into the request, so a
\* record that differs from the options in one rendering field gives a
\* different request.
C4_LossFree ==
    \A i \in 1..Len(requests) :
        \A f \in RenderingFields : Carried(f, requests[i])

\* C4 amended: the margins, landscape, print background, scale, display
\* header/footer and the two templates are carried unchanged, so a record that
\* differs in one of them gives a different request; format, width and height
\* are folded into the paper size (the format's size for a predefined format,
\* nothing for another non-empty format, width x height for an empty format
\* with both positive, nothing otherwise).
C4_Translation ==
    \A i \in 1..Len(requests) :
        LET r == requests[i] IN
        /\ r.MarginTop = options.MarginTop
        /\ r.MarginBottom = options.MarginBottom
        /\ r.MarginLeft = options.MarginLeft
        /\ r.MarginRight = options.MarginRight
        /\ r.Landscape = options.Landscape
        /\ r.PrintBackground = options.PrintBackground
        /\ r.Scale = options.Scale
        /\ r.DisplayHeaderFooter = options.DisplayHeaderFooter
        /\ r.HeaderTemplate = options.HeaderTemplate
        /\ r.FooterTemplate = options.FooterTemplate
        /\ \A f \in RenderingFields \ SizeFields : Carried(f, r)
        /\ RequestSize(r) =
              IF options.Format \in Predefined THEN DocumentedSize(options.Format)
              ELSE IF options.Format # "" THEN <<0, 0>>
              ELSE IF options.Width > 0 /\ options.Height > 0
                   THEN <<options.Width, options.Height>>
                   ELSE <<0, 0>>

C4_Witness ==
    /\ Len(requests) = 1
    /\ options.MarginTop # options.MarginLeft
    /\ options.MarginLeft # options.MarginRight
    /\ options.Format = ""
    /\ RequestSize(requests[1]) = <<850, 500>>

\* C5: the timeout context and the browser context exist only during a call:
\* neither is held before it, both are active while it runs, and both are
\* cancelled, with no deferred cancel left, once it has returned, whether it
\* succeeded or failed.
C5_Released ==
    /\ ~InCall => ctxs = [timeout |-> "none", browser |-> "none"]
    /\ pc \in {"run", "exec", "return"} =>
          ctxs = [timeout |-> "active", browser |-> "active"]
    /\ pc = "done" =>
          /\ ctxs = [timeout |-> "cancelled", browser |-> "cancelled"]
          /\ defers = <<>>

C5_Witness ==
    /\ pc = "done"
    /\ failedStep = "WaitReady"
    /\ retErr # NoErr
    /\ ctxs.timeout = "cancelled"
    /\ ctxs.browser = "cancelled"

\* C6: when Format is one of the five predefined formats, the request's paper
\* size is that format's documented size, whatever Width and Height hold.
C6_FormatSize ==
    \A i \in 1..Len(requests) :
        options.Format \in Predefined =>
            RequestSize(requests[i]) = DocumentedSize(options.Format)

C6_Witness ==
    /\ Len(requests) = 1
    /\ options.Format = "Tabloid"
    /\ options.Width = 850
    /\ options.Height = 500
    /\ RequestSize(requests[1]) = <<1100, 1700>>

\* C7: for a generator made by the builder, the request's paper size is
\* decided by the last Format or Size call alone: Size(w, h) with both
\* positive gives w x h, Format(f) with f predefined gives f's size.
C7_LastSizingWins ==
    \A i \in 1..Len(requests) :
        how = "builder" =>
            /\ (lastSizing.kind = "Size" /\ lastSizing.w > 0 /\ lastSizing.h > 0) =>
                  RequestSize(requests[i]) = <<lastSizing.w, lastSizing.h>>
            /\ (lastSizing.kind = "Format" /\ lastSizing.f \in Predefined) =>
                  RequestSize(requests[i]) = DocumentedSize(lastSizing.f)

C7_Witness ==
    /\ Len(requests) = 1
    /\ how = "builder"
    /\ lastSizing.kind = "Size"
    /\ lastSizing.prev = "Format"
    /\ lastSizing.w = 500
    /\ lastSizing.h = 850
    /\ RequestSize(requests[1]) = <<500, 850>>

\* C8: the scale factor of every request lies in 0.1 .. 2.0.
C8_ScaleInRange ==
    \A i \in 1..Len(requests) :
        requests[i].Scale >= 10 /\ requests[i].Scale <= 200

\* The README's PDFOptions table of defaults, and the request they stand for.
DocumentedDefaults ==
    [Format |-> "A4", Width |-> 0, Height |-> 0,
     MarginTop |-> 40, MarginBottom |-> 40, MarginLeft |-> 40, MarginRight |-> 40,
     Landscape |-> FALSE, PrintBackground |-> TRUE, Scale |-> 100,
     DisplayHeaderFooter |-> FALSE, HeaderTemplate |-> "", FooterTemplate |-> "",
     WaitForSelector |-> "", WaitTime |-> 2000, Timeout |-> 30000]

DocumentedDefaultRequest ==
    [PrintBackground |-> TRUE, Landscape |-> FALSE, DisplayHeaderFooter |-> FALSE,
     Scale |-> 100, PaperWidth |-> 827, PaperHeight |-> 1170,
     MarginTop |-> 40, MarginBottom |-> 40, MarginLeft |-> 40, MarginRight |-> 40,
     HeaderTemplate |-> "", FooterTemplate |-> ""]

UsesDefaults ==
    \/ how \in {"pkg", "nil", "default"}
    \/ how = "builder" /\ ncalls = 0

\* C9: the package-level functions, NewGenerator(nil),
\* NewGenerator(DefaultOptions()) and an untouched builder all run with the
\* documented defaults: the same four commands (navigate to the input, wait
\* for body, sleep 2s, print-to-PDF) and the documented default request.
C9_Defaults ==
    UsesDefaults =>
        /\ options = DocumentedDefaults
        /\ InCall =>
              /\ Len(tasks) = 4
              /\ tasks[1].cmd = "Navigate"
              /\ tasks[1].url = (IF entry = "FromHTML" THEN DataURL(input) ELSE input)
              /\ tasks[2].cmd = "WaitReady" /\ tasks[2].sel = "body"
              /\ tasks[3].cmd = "Sleep" /\ tasks[3].d = 2000
              /\ tasks[4].cmd = "PrintToPDF"
        /\ \A i \in 1..Len(requests) : requests[i] = DocumentedDefaultRequest

C9_Witness ==
    /\ pc = "done"
    /\ how = "builder"
    /\ ncalls = 0
    /\ retErr = NoErr
    /\ requests = <<DocumentedDefaultRequest>>

====
